---- MODULE Spec2Model ----
(***************************************************************************)
(* Model of the website watch/rebuild loop of adroit-lang/adroit:          *)
(*   packages/website/watch.ts   the chokidar handler and work()           *)
(*   packages/website/common.tsx build() and generate()                    *)
(* Two revisions of build() are in the tree: the one of common.tsx calls   *)
(* fs.rm without `force`, the later one calls it with `force: true` and    *)
(* renders src/index.md.  The variable rev selects the revision.           *)
(***************************************************************************)
EXTENDS Integers, Sequences, FiniteSets, TLC

MaxSignals == 3     \* watcher events delivered in one run
MaxVer == 1         \* edits of the source tree in one run

None == -1          \* a file that is not there
Calls == 1..MaxSignals
Vers == 0..MaxVer

VARIABLES
  rev,        \* 1: build() of common.tsx, 2: build() with force: true
  srcVer,     \* content of src/ (bumped by every edit)
  working,    \* watch.ts:6
  dirty,      \* watch.ts:7
  pc,         \* per handler invocation: where its work()/build() stands
  rendered,   \* per invocation: the html string awaited from renderHtml
  out, dist, tmp,   \* the three directories (staging, live, holding)
  alive,      \* the process has not been ended by an unhandled rejection
  sigs,       \* number of watcher events delivered so far
  \* ---- history (observation only, never read by the actions' guards) ----
  cycles,     \* number of calls of build()
  during,     \* during[k]: events delivered while the k-th build() ran
  sigsIdle,   \* events delivered while working was false
  failure,    \* which step made a build() throw ("none" if none did)
  envFault,   \* the environment refused some filesystem operation
  distAtStart, tmpAtStart,   \* live and holding when the last build() began
  published,  \* some rename of out to dist has succeeded
  everLive,   \* dist has existed at some point
  genStartSig,\* value of sigs when generate() was last entered
  fresh,      \* the run began with none of out, dist, tmp
  steps,      \* the awaited steps settled so far, each with its build's number
  genCycle,   \* number of the last build whose generate() returned
  lastPublished   \* the tree the last successful rename to dist moved there

vars == <<rev, srcVer, working, dirty, pc, rendered, out, dist, tmp, alive,
          sigs, cycles, during, sigsIdle, failure, envFault, distAtStart,
          tmpAtStart, published, everLive, genStartSig, fresh, steps,
          genCycle, lastPublished>>

(***************************************************************************)
(* Directories.  A directory is absent, or holds index.css and index.html  *)
(* each either missing (None) or carrying the source version it was        *)
(* produced from.                                                          *)
(***************************************************************************)
Absent == [exists |-> FALSE, css |-> None, html |-> None]

Dir(c, h) == [exists |-> TRUE, css |-> c, html |-> h]

Complete(d) == d.exists /\ d.css # None /\ d.html # None

IsEmpty(d) == d.exists /\ d.css = None /\ d.html = None

\* fs.rm(path, { force: true, recursive: true }) is the later revision
Force == rev = 2

\* what indexHtml() renders: a constant template, later src/index.md
RenderHtml(v) == IF rev = 2 THEN v ELSE 0

\* the tree generate() leaves when the source does not change under it
GenOutput(v) == Dir(v, RenderHtml(v))

\* Bun.write(`${out}/${file}`, ...) creates the directory when needed
WriteCss(d, v) == Dir(v, d.html)

WriteHtml(d, h) == Dir(d.css, h)

\* fs.rm throws when the environment refuses, or on a missing path
\* unless force is given
RmThrows(d, fault) == fault \/ (~d.exists /\ ~Force)

\* what a recursive removal leaves: nothing, or when it is refused
\* part-way any part of the tree
RmLeaves(d, fault) ==
  IF fault /\ d.exists
  THEN {Dir(c, h) : c \in {d.css, None}, h \in {d.html, None}}
  ELSE {Absent}

\* fs.rename of a directory: the source must exist and the target must be
\* absent or an empty directory
RenameOk(src, dst, fault) == ~fault /\ src.exists /\ (~dst.exists \/ IsEmpty(dst))

(***************************************************************************)
(* Control flow of build(): the awaited steps in statement order.          *)
(***************************************************************************)
BuildPcs == {"rm_out", "gen_css", "gen_render", "gen_html",
             "rename1", "rename2", "rm_tmp"}

PcValues == BuildPcs \cup {"new", "returned", "rejected"}

\* build() that publishes as soon as index.css is written
AfterPublishEarly(p) ==
  CASE p = "rm_out"     -> "gen_css"
    [] p = "gen_css"    -> "rename1"
    [] p = "gen_render" -> "gen_html"
    [] p = "gen_html"   -> "rename1"
    [] p = "rename1"    -> "rename2"
    [] p = "rename2"    -> "rm_tmp"
    [] p = "rm_tmp"     -> "done"

\* build() that moves dist away before it generates
AfterSwapFirst(p) ==
  CASE p = "rm_out"     -> "rename1"
    [] p = "rename1"    -> "gen_css"
    [] p = "gen_css"    -> "gen_render"
    [] p = "gen_render" -> "gen_html"
    [] p = "gen_html"   -> "rename2"
    [] p = "rename2"    -> "rm_tmp"
    [] p = "rm_tmp"     -> "done"

\* build() that removes tmp before it renames out to dist
AfterCleanupEarly(p) ==
  CASE p = "rm_out"     -> "gen_css"
    [] p = "gen_css"    -> "gen_render"
    [] p = "gen_render" -> "gen_html"
    [] p = "gen_html"   -> "rename1"
    [] p = "rename1"    -> "rm_tmp"
    [] p = "rm_tmp"     -> "rename2"
    [] p = "rename2"    -> "done"

\* common.tsx:21-31, the order of the awaited statements of build()
After(p) ==
  CASE p = "rm_out"     -> "gen_css"
    [] p = "gen_css"    -> "gen_render"
    [] p = "gen_render" -> "gen_html"
    [] p = "gen_html"   -> "rename1"
    [] p = "rename1"    -> "rename2"
    [] p = "rename2"    -> "rm_tmp"
    [] p = "rm_tmp"     -> "done"

\* calls of build() that have not yet returned or thrown
InFlight == {i \in Calls : pc[i] \in BuildPcs}

\* a handler that never sees a build in progress
AlreadyWorkingNever == FALSE

\* watch.ts:10, `if (working) return;`
AlreadyWorking == working

\* a handler that records an event only when no build is running
DirtyOnlyWhenIdle == ~working

\* watch.ts:22, `dirty = true;`
DirtyOnEvent == TRUE

Init ==
  /\ rev \in {1, 2}
  /\ srcVer = 0
  /\ working = FALSE
  /\ dirty = FALSE
  /\ pc = [i \in Calls |-> "new"]
  /\ rendered = [i \in Calls |-> None]
  /\ out \in {Absent, Dir(0, None), GenOutput(0)}
  /\ dist \in {Absent, GenOutput(0)}
  /\ tmp \in {Absent, GenOutput(0)}
  /\ alive = TRUE
  /\ sigs = 0
  /\ cycles = 0
  /\ during = << >>
  /\ sigsIdle = 0
  /\ failure = "none"
  /\ envFault = FALSE
  /\ distAtStart = dist
  /\ tmpAtStart = tmp
  /\ published = FALSE
  /\ everLive = dist.exists
  /\ genStartSig = 0
  /\ fresh = (~out.exists /\ ~dist.exists /\ ~tmp.exists)
  /\ steps = << >>
  /\ genCycle = 0
  /\ lastPublished = [tree |-> dist, cycle |-> 0, genOk |-> TRUE]

\* an edit of a file under src/
Change ==
  /\ srcVer < MaxVer
  /\ srcVer' = srcVer + 1
  /\ UNCHANGED <<rev, working, dirty, pc, rendered, out, dist, tmp, alive,
                 sigs, cycles, during, sigsIdle, failure, envFault,
                 distAtStart, tmpAtStart, published, everLive, genStartSig,
                 fresh, steps, genCycle, lastPublished>>

\* build() is entered: it runs up to its first await, the fs.rm of out
EnterBuild(i) ==
  /\ pc' = [pc EXCEPT ![i] = "rm_out"]
  /\ cycles' = cycles + 1
  /\ during' = Append(during, 0)
  /\ distAtStart' = dist'
  /\ tmpAtStart' = tmp'

\* a loop that forgets to clear the flag
DirtyKept == TRUE

\* watch.ts:13, `dirty = false;`
DirtyAtCycleStart == FALSE

\* a work() that never clears working
WorkingLeftSet == TRUE

\* watch.ts:18, `working = false;`
WorkingAfterLoop == FALSE

\* watch.ts:12-18, the head of `while (dirty)` reached with dirty = d
LoopHead(i, d) ==
  IF d
  THEN /\ dirty' = DirtyAtCycleStart
       /\ working' = TRUE
       /\ EnterBuild(i)
  ELSE /\ dirty' = d
       /\ working' = WorkingAfterLoop
       /\ pc' = [pc EXCEPT ![i] = "returned"]
       /\ UNCHANGED <<cycles, during, distAtStart, tmpAtStart>>

\* the step at p of call i has succeeded
Advance(i, p) ==
  /\ IF After(p) = "done"
     THEN LoopHead(i, dirty)
     ELSE /\ pc' = [pc EXCEPT ![i] = After(p)]
          /\ UNCHANGED <<working, dirty, cycles, during, distAtStart,
                         tmpAtStart>>
  /\ genStartSig' = IF After(p) = "gen_css" THEN sigs ELSE genStartSig
  /\ steps' = Append(steps, <<cycles, p>>)
  /\ genCycle' = IF p = "gen_html" THEN cycles ELSE genCycle
  /\ UNCHANGED <<alive, failure>>

\* the step of call i has thrown: build() rejects, work() rejects at
\* watch.ts:15 without reaching line 18, the handler's promise rejects
\* with nobody awaiting it; the runtime may end the process on that
Throw(i, kind) ==
  /\ pc' = [pc EXCEPT ![i] = "rejected"]
  /\ failure' = kind
  /\ alive' \in BOOLEAN
  /\ steps' = Append(steps, <<cycles, pc[i]>>)
  /\ UNCHANGED <<working, dirty, cycles, during, distAtStart, tmpAtStart,
                 genStartSig, genCycle>>

\* watch.ts:21-25, the i-th watcher event
Signal(i) ==
  /\ alive
  /\ i = sigs + 1
  /\ pc[i] = "new"
  /\ sigs' = i
  /\ UNCHANGED <<rev, srcVer, rendered, out, dist, tmp, alive, failure,
                 envFault, published, everLive, genStartSig, fresh, steps,
                 genCycle, lastPublished>>
  /\ IF AlreadyWorking
     THEN /\ dirty' = DirtyOnEvent
          /\ pc' = [pc EXCEPT ![i] = "returned"]
          /\ during' = IF cycles > 0
                        THEN [during EXCEPT ![Len(during)] = @ + 1]
                        ELSE during
          /\ UNCHANGED <<working, cycles, distAtStart, tmpAtStart, sigsIdle>>
     ELSE /\ LoopHead(i, DirtyOnEvent)
          /\ sigsIdle' = sigsIdle + 1

\* common.tsx:22, `await fs.rm(out, ...)`
RmOut(i) ==
  /\ alive
  /\ pc[i] = "rm_out"
  /\ \E fault \in BOOLEAN :
       /\ envFault' = (envFault \/ fault)
       /\ \E d \in RmLeaves(out, fault) : out' = d
       /\ UNCHANGED <<dist, tmp>>
       /\ IF RmThrows(out, fault) THEN Throw(i, "clear")
                                  ELSE Advance(i, "rm_out")
  /\ UNCHANGED <<rev, srcVer, rendered, sigs, sigsIdle, published, everLive,
                 fresh, lastPublished>>

\* common.tsx:15-17, Bun.write of index.css
GenCss(i) ==
  /\ alive
  /\ pc[i] = "gen_css"
  /\ \E fault \in BOOLEAN :
       /\ envFault' = (envFault \/ fault)
       /\ out' = IF fault THEN out ELSE WriteCss(out, srcVer)
       /\ UNCHANGED <<dist, tmp>>
       /\ IF fault THEN Throw(i, "generate") ELSE Advance(i, "gen_css")
  /\ UNCHANGED <<rev, srcVer, rendered, sigs, sigsIdle, published, everLive,
                 fresh, lastPublished>>

\* common.tsx:18, `await renderHtml(indexHtml())`
GenRender(i) ==
  /\ alive
  /\ pc[i] = "gen_render"
  /\ \E fault \in BOOLEAN :
       /\ envFault' = (envFault \/ fault)
       /\ rendered' = IF fault THEN rendered
                      ELSE [rendered EXCEPT ![i] = RenderHtml(srcVer)]
       /\ UNCHANGED <<out, dist, tmp>>
       /\ IF fault THEN Throw(i, "generate") ELSE Advance(i, "gen_render")
  /\ UNCHANGED <<rev, srcVer, sigs, sigsIdle, published, everLive, fresh,
                 lastPublished>>

\* common.tsx:18, Bun.write of index.html
GenHtml(i) ==
  /\ alive
  /\ pc[i] = "gen_html"
  /\ \E fault \in BOOLEAN :
       /\ envFault' = (envFault \/ fault)
       /\ out' = IF fault THEN out ELSE WriteHtml(out, rendered[i])
       /\ UNCHANGED <<dist, tmp>>
       /\ IF fault THEN Throw(i, "generate") ELSE Advance(i, "gen_html")
  /\ UNCHANGED <<rev, srcVer, rendered, sigs, sigsIdle, published, everLive,
                 fresh, lastPublished>>

\* a step 1 whose error is rethrown
Rename1ThrowsOnError(ok) == ~ok

\* common.tsx:26-28, `catch (_) {}`: no error of the first rename leaves
\* the try statement
Rename1Throws(ok) == FALSE

\* common.tsx:26-28, `try { await fs.rename(dist, tmp); } catch (_) {}`
Rename1(i) ==
  /\ alive
  /\ pc[i] = "rename1"
  /\ \E fault \in BOOLEAN :
       /\ envFault' = (envFault \/ fault)
       /\ IF RenameOk(dist, tmp, fault)
          THEN tmp' = dist /\ dist' = Absent
          ELSE UNCHANGED <<dist, tmp>>
       /\ UNCHANGED out
       /\ IF Rename1Throws(RenameOk(dist, tmp, fault))
          THEN Throw(i, "hold")
          ELSE Advance(i, "rename1")
  /\ UNCHANGED <<rev, srcVer, rendered, sigs, sigsIdle, published, everLive,
                 fresh, lastPublished>>

\* common.tsx:29, `await fs.rename(out, dist)`
Rename2(i) ==
  /\ alive
  /\ pc[i] = "rename2"
  /\ \E fault \in BOOLEAN :
       /\ envFault' = (envFault \/ fault)
       /\ UNCHANGED tmp
       /\ IF RenameOk(out, dist, fault)
          THEN /\ dist' = out
               /\ out' = Absent
               /\ published' = TRUE
               /\ everLive' = TRUE
               /\ lastPublished' = [tree |-> out, cycle |-> cycles,
                                    genOk |-> genCycle = cycles]
               /\ Advance(i, "rename2")
          ELSE /\ UNCHANGED <<out, dist, published, everLive, lastPublished>>
               /\ Throw(i, "publish")
  /\ UNCHANGED <<rev, srcVer, rendered, sigs, sigsIdle, fresh>>

\* common.tsx:30, `await fs.rm(tmp, ...)`, then back in work() at
\* watch.ts:16-18
RmTmp(i) ==
  /\ alive
  /\ pc[i] = "rm_tmp"
  /\ \E fault \in BOOLEAN :
       /\ envFault' = (envFault \/ fault)
       /\ \E d \in RmLeaves(tmp, fault) : tmp' = d
       /\ UNCHANGED <<out, dist>>
       /\ IF RmThrows(tmp, fault) THEN Throw(i, "cleanup")
                                  ELSE Advance(i, "rm_tmp")
  /\ UNCHANGED <<rev, srcVer, rendered, sigs, sigsIdle, published, everLive,
                 fresh, lastPublished>>

Step(i) ==
  \/ RmOut(i)
  \/ GenCss(i)
  \/ GenRender(i)
  \/ GenHtml(i)
  \/ Rename1(i)
  \/ Rename2(i)
  \/ RmTmp(i)

Next ==
  \/ Change
  \/ \E i \in Calls : Signal(i)
  \/ \E i \in Calls : Step(i)

Spec == Init /\ [][Next]_vars

\* every awaited filesystem operation eventually settles
FairSpec == Spec /\ WF_vars(\E i \in Calls : Step(i))

TypeOK ==
  /\ rev \in {1, 2}
  /\ srcVer \in Vers
  /\ working \in BOOLEAN /\ dirty \in BOOLEAN /\ alive \in BOOLEAN
  /\ \A i \in Calls : pc[i] \in PcValues
  /\ sigs \in 0..MaxSignals
  /\ cycles = Len(during)

(***************************************************************************)
(* C1  No concurrent builds: at every instant at most one call of build()  *)
(* has been entered and has neither returned nor thrown.                   *)
(***************************************************************************)
C1_NoConcurrentBuilds == Cardinality(InFlight) <= 1

\* an event has been delivered while a build was running
C1_Witness == Cardinality(InFlight) = 1 /\ dirty /\ sigs >= 2

(***************************************************************************)
(* C2  Coalescing: one event starts a build, N >= 1 events arrive while it *)
(* runs and none later, no build fails; once the scheduler is idle again   *)
(* exactly two builds have run, whatever N is.                             *)
(***************************************************************************)
C2_Coalescing ==
  ( /\ ~working
    /\ failure = "none"
    /\ sigsIdle = 1
    /\ cycles >= 1
    /\ during[1] >= 1
    /\ \A k \in 2..Len(during) : during[k] = 0 )
  => (cycles = 2 /\ sigs = 1 + during[1])

\* two events arrived during the first build and were served by one rerun
C2_Witness ==
  ~working /\ failure = "none" /\ sigsIdle = 1 /\ during = <<2, 0>>

(***************************************************************************)
(* C3 as written: once dist has existed, dist is a complete tree in every  *)
(* state (an observer never finds it absent).                              *)
(***************************************************************************)
C3_NeverAbsent == everLive => Complete(dist)

(***************************************************************************)
(* C3 as amended: dist is always absent or a complete tree, never a        *)
(* partial one; once it has existed it is absent only between the rename   *)
(* of dist to tmp and the rename of out to dist of a build, or after that  *)
(* second rename failed.                                                   *)
(***************************************************************************)
C3_CompleteOrInSwap ==
  /\ dist.exists => Complete(dist)
  /\ (everLive /\ ~dist.exists) =>
       ((\E i \in Calls : pc[i] = "rename2") \/ failure = "publish")

\* the window of a later publish: the old tree is under tmp, the new one
\* still under out, and dist is absent
C3_Witness ==
  /\ published /\ ~dist.exists /\ Complete(tmp) /\ Complete(out)
  /\ \E i \in Calls : pc[i] = "rename2"

(***************************************************************************)
(* C4  Generator failures are not fatal: after a build in which generate() *)
(* failed the process is still running and either idle (working = false)   *)
(* or running a new build, so that a later event can start one.            *)
(***************************************************************************)
C4_GenerateFailureNotFatal ==
  failure = "generate" => (alive /\ (~working \/ InFlight # {}))

(***************************************************************************)
(* C5  Failure isolation: when generate() fails, dist and tmp are what     *)
(* they were when that build began.                                        *)
(***************************************************************************)
C5_FailureIsolation ==
  failure = "generate" => (dist = distAtStart /\ tmp = tmpAtStart)

\* generate() failed while a published tree was there
C5_Witness == failure = "generate" /\ Complete(dist) /\ out.exists

(***************************************************************************)
(* C6  No lost change: after the k-th event has been delivered, generate() *)
(* is eventually entered at a time when at least k events have been        *)
(* delivered, unless some build fails.                                     *)
(***************************************************************************)
C6_NoLostChange ==
  \A k \in Calls :
    (sigs >= k) ~> (genStartSig >= k \/ failure # "none")

\* an event that arrived during a build was followed by a new generate()
C6_Witness ==
  /\ cycles = 2 /\ during[1] >= 1 /\ genStartSig = sigs
  /\ failure = "none" /\ srcVer > 0

(***************************************************************************)
(* C7  First publish: with none of out, dist, tmp at the start and the     *)
(* environment refusing nothing, once the build started by a single event  *)
(* is over it has completed without error: one build, scheduler idle,      *)
(* dist is the complete tree generate() produces.                          *)
(***************************************************************************)
C7_FirstPublish ==
  (fresh /\ sigs = 1 /\ ~envFault /\ InFlight = {}) =>
    /\ failure = "none"
    /\ cycles = 1
    /\ ~working /\ ~dirty
    /\ Complete(dist)
    /\ srcVer = 0 => dist = GenOutput(0)

(***************************************************************************)
(* C8  Publish failures do not end the session: after a build in which a   *)
(* rename or a removal failed the process is still running and the next    *)
(* event starts a build (the scheduler is idle or building).               *)
(***************************************************************************)
C8_PublishFailureNotFatal ==
  failure \in {"publish", "cleanup"} =>
    (alive /\ (~working \/ InFlight # {}))

(***************************************************************************)
(* C9  Cleanup is best-effort: a failure to remove tmp after out has been  *)
(* renamed to dist never makes build() fail.                               *)
(***************************************************************************)
C9_CleanupBestEffort == failure # "cleanup"

(***************************************************************************)
(* C10 The previous deployment is never lost: once a publish has           *)
(* succeeded, dist or tmp holds a complete tree in every state.            *)
(***************************************************************************)
C10_DeploymentKept == published => (Complete(dist) \/ Complete(tmp))

\* the second rename failed after the first one had moved dist to tmp
C10_Witness ==
  published /\ failure = "publish" /\ ~dist.exists /\ Complete(tmp)

(***************************************************************************)
(* C11 Idempotence: when two builds have run with the source unchanged and *)
(* the environment refusing nothing, both have completed and dist after    *)
(* the second is the complete tree it was after the first (its value when  *)
(* the second build began).                                                *)
(***************************************************************************)
C11_Idempotent ==
  (cycles = 2 /\ InFlight = {} /\ srcVer = 0 /\ ~envFault) =>
    (failure = "none" /\ Complete(dist) /\ dist = distAtStart)

(***************************************************************************)
(* C12 Staging is fresh: the removal of out that opens build() fails only  *)
(* when the environment refuses it, whether out is there or not, and       *)
(* generate() is entered with out absent.                                  *)
(***************************************************************************)
C12_StagingFresh ==
  /\ failure = "clear" => envFault
  /\ \A i \in Calls : pc[i] = "gen_css" => ~out.exists

\* the awaited steps of one build() in the order of common.tsx:21-31
Order == <<"rm_out", "gen_css", "gen_render", "gen_html",
           "rename1", "rename2", "rm_tmp">>

(***************************************************************************)
(* C13 Protocol order: the n-th step settled in a run is the step of       *)
(* build() that the fixed order clear, generate (css, render, html),       *)
(* rename dist to tmp, rename out to dist, remove tmp puts there, and it   *)
(* belongs to build number (n-1) \div 7 + 1: a build takes its steps one   *)
(* after the other and the next build takes none before the previous one   *)
(* has taken all seven.                                                    *)
(***************************************************************************)
C13_ProtocolOrder ==
  \A n \in 1..Len(steps) :
    steps[n] = <<((n - 1) \div Len(Order)) + 1, Order[((n - 1) % Len(Order)) + 1]>>

\* a rerun queued during a build has run to its end after that build
C13_Witness ==
  Len(steps) = 2 * Len(Order) /\ during[1] >= 1 /\ ~working

(***************************************************************************)
(* C14 Holding is never re-published: whenever dist exists it is the tree  *)
(* that the last successful rename of out to dist moved there, and the     *)
(* generate() of that same build had returned before that rename.          *)
(***************************************************************************)
C14_LiveIsLastStaging ==
  dist.exists => (dist = lastPublished.tree /\ lastPublished.genOk)

\* after a publish the older tree is still under tmp and differs from dist
C14_Witness ==
  /\ published /\ Complete(dist) /\ Complete(tmp) /\ dist # tmp
  /\ lastPublished.cycle = cycles

(***************************************************************************)
(* C15 Scheduler flags: dirty is set only while a build is in flight, with *)
(* working set and at least one event delivered since that build began;    *)
(* when working is false dirty is false.                                   *)
(***************************************************************************)
C15_FlagInvariant ==
  /\ dirty => (InFlight # {} /\ working /\ during[cycles] >= 1)
  /\ ~working => ~dirty

(***************************************************************************)
(* C16 An event delivered while a build is in flight only sets dirty:      *)
(* working stays true, no build is entered, out, dist and tmp are not      *)
(* touched, the handler's work() returns at once with the same build still *)
(* in flight; and when dirty was already set, working and dirty do not     *)
(* change at all.                                                          *)
(***************************************************************************)
C16_BusyEventOnlyMarks ==
  [][ (sigs' = sigs + 1 /\ InFlight # {}) =>
        /\ working /\ working' /\ dirty'
        /\ cycles' = cycles
        /\ <<out, dist, tmp>>' = <<out, dist, tmp>>
        /\ pc'[sigs'] = "returned"
        /\ InFlight' = InFlight
        /\ dirty => (<<working, dirty>>' = <<working, dirty>>) ]_vars

\* a second event has come in during the same build
C16_Witness == InFlight # {} /\ dirty /\ during[cycles] >= 2

(***************************************************************************)
(* C17 Step 1 swallows every error: whatever the rename of dist to tmp     *)
(* did, the build goes on to the rename of out to dist and no failure is   *)
(* recorded.                                                               *)
(***************************************************************************)
C17_Step1Swallows ==
  [][ \A i \in Calls :
        (pc[i] = "rename1" /\ pc'[i] # "rename1") =>
          (pc'[i] = "rename2" /\ failure' = failure /\ alive') ]_vars

\* step 2 is about to be tried although step 1 failed on a tmp that was
\* in the way: dist is still there
C17_Witness ==
  \E i \in Calls : pc[i] = "rename2" /\ dist.exists /\ tmp.exists

(***************************************************************************)
(* C18 No spurious builds: never more builds than events, none without an  *)
(* event, and every build is either started by an event that found the     *)
(* scheduler idle or is the rerun after a build during which an event came *)
(* in.                                                                     *)
(***************************************************************************)
C18_NoSpuriousBuilds ==
  /\ cycles <= sigs
  /\ sigs = 0 => cycles = 0
  /\ cycles = sigsIdle
              + Cardinality({k \in 1..(cycles - 1) : during[k] >= 1})

\* three events were served by two builds
C18_Witness == sigs = 3 /\ cycles = 2 /\ ~working /\ failure = "none"

(***************************************************************************)
(* C19 Quiescence: whenever working is set, the scheduler eventually is    *)
(* idle with working and dirty both false, unless a build fails; and once  *)
(* idle it stays idle and enters no build as long as no event is delivered.*)
(***************************************************************************)
C19_Quiescence ==
  /\ working ~> ((~working /\ ~dirty) \/ failure # "none")
  /\ [][ (~working /\ ~dirty /\ sigs' = sigs) =>
           (~working' /\ ~dirty' /\ cycles' = cycles) ]_vars

\* idle again after a build and the rerun an event had queued
C19_Witness ==
  /\ ~working /\ ~dirty /\ failure = "none"
  /\ cycles = 2 /\ during[1] >= 1 /\ srcVer = 0

====
